---------------------------- MODULE Spec2Model ----------------------------
(***************************************************************************)
(* Model of the TOML formatting engine of toml_formatter/toml_formatter.py *)
(* (entry parser, sectionizer, section formatter, document assembler).     *)
(*                                                                         *)
(* A text is a sequence of lines, a line a sequence of one-character       *)
(* strings.  Characters are compared by their code points (Ord), as        *)
(* Python's str comparison does.                                           *)
(***************************************************************************)
EXTENDS Integers, Sequences, FiniteSets, TLC

\* ------------------------------------------------------------------ bounds
\* Longest input document, in lines.
MaxLines == 5

\* Most FormattedToml objects alive at once.
MaxInstances == 2

\* Longest input document made of blocks of lines, in blocks.
MaxBlocks == 3

\* ------------------------------------------------------------- characters
\* Code points of the characters the modelled documents use.
Ord ==
  (" " :> 32) @@ ("#" :> 35) @@ ("." :> 46) @@ ("1" :> 49) @@ ("2" :> 50) @@
  ("=" :> 61) @@ ("A" :> 65) @@ ("B" :> 66) @@ ("C" :> 67) @@ ("[" :> 91) @@
  ("]" :> 93) @@ ("a" :> 97) @@ ("b" :> 98) @@ ("c" :> 99) @@ ("d" :> 100) @@
  ("k" :> 107) @@ ("t" :> 116) @@ ("x" :> 120) @@ ("y" :> 121)

\* str.lower() on one character.
LowerChar(c) ==
  CASE c = "A" -> "a" [] c = "B" -> "b" [] c = "C" -> "c" [] OTHER -> c

\* str.lower()
Lower(s) == [i \in 1..Len(s) |-> LowerChar(s[i])]

\* Python's s < t on strings: lexicographic on code points, a proper prefix first.
StrLess(s, t) ==
  \E i \in 1..(Len(t)) :
    /\ i - 1 <= Len(s)
    /\ \A j \in 1..(i - 1) : s[j] = t[j]
    /\ \/ i = Len(s) + 1
       \/ i <= Len(s) /\ Ord[s[i]] < Ord[t[i]]

\* s.lstrip(" ")
RECURSIVE LStrip(_)
LStrip(s) == IF s # <<>> /\ Head(s) = " " THEN LStrip(Tail(s)) ELSE s

\* s.rstrip(" ")
RECURSIVE RStrip(_)
RStrip(s) ==
  IF s # <<>> /\ s[Len(s)] = " " THEN RStrip(SubSeq(s, 1, Len(s) - 1)) ELSE s

\* s.strip()
Strip(s) == RStrip(LStrip(s))

\* s.strip("[]")
RECURSIVE StripBrackets(_)
StripBrackets(s) ==
  IF s # <<>> /\ Head(s) \in {"[", "]"} THEN StripBrackets(Tail(s))
  ELSE IF s # <<>> /\ s[Len(s)] \in {"[", "]"}
       THEN StripBrackets(SubSeq(s, 1, Len(s) - 1))
       ELSE s

\* n * " "
Spaces(n) == [i \in 1..n |-> " "]

\* Index of the first occurrence of character c in s, 0 when there is none.
IndexOf(s, c) ==
  IF \E i \in 1..Len(s) : s[i] = c
  THEN CHOOSE i \in 1..Len(s) : s[i] = c /\ \A j \in 1..(i - 1) : s[j] # c
  ELSE 0

\* s with every space removed (tomlkit re-renders keys and header names from
\* their stripped components).
RECURSIVE NoSpaces(_)
NoSpaces(s) ==
  IF s = <<>> THEN <<>>
  ELSE IF Head(s) = " " THEN NoSpaces(Tail(s))
       ELSE <<Head(s)>> \o NoSpaces(Tail(s))


\* The characters of s from position i on.
From(s, i) == SubSeq(s, i, Len(s))

\* Whether pat occurs in s at position i.
OccursAt(s, pat, i) ==
  /\ i >= 1
  /\ i + Len(pat) - 1 <= Len(s)
  /\ \A j \in 1..Len(pat) : s[i + j - 1] = pat[j]

\* s.find(pat, from): the first position at or after from where pat occurs
\* in s, 0 when there is none.
Find(s, pat, from) ==
  LET hits == {i \in from..Len(s) : OccursAt(s, pat, i)}
  IN  IF hits = {} THEN 0 ELSE CHOOSE i \in hits : \A j \in hits : i <= j

\* Variant of s.strip() in which only spaces are removed, line ends are kept.
StripSpacesOnly(s) == Strip(s)

\* s.strip(): spaces and line ends removed from both ends.
RECURSIVE StripWs(_)
StripWs(s) ==
  IF s # <<>> /\ Head(s) \in {" ", "\n"} THEN StripWs(Tail(s))
  ELSE IF s # <<>> /\ s[Len(s)] \in {" ", "\n"}
       THEN StripWs(SubSeq(s, 1, Len(s) - 1))
       ELSE s

\* s.split("\n")
RECURSIVE SplitLines(_)
SplitLines(s) ==
  LET n == IndexOf(s, "\n")
  IN  IF n = 0 THEN <<s>>
      ELSE <<SubSeq(s, 1, n - 1)>> \o SplitLines(From(s, n + 1))

\* "\n".join(lines)
RECURSIVE JoinLines(_)
JoinLines(lines) ==
  IF lines = <<>> THEN <<>>
  ELSE IF Len(lines) = 1 THEN lines[1]
       ELSE lines[1] \o <<"\n">> \o JoinLines(Tail(lines))

\* The delimiter of a multi-line literal string.
Quote3 == <<"'", "'", "'">>

\* ---------------------------------------------------------------- entries
\* The elements of an array, from the text between its brackets: the pieces
\* between the commas, stripped; an empty piece (after a trailing comma) is
\* no element.
RECURSIVE ArrayElements(_)
ArrayElements(inner) ==
  LET c == IndexOf(inner, ",")
      piece == StripWs(IF c = 0 THEN inner ELSE SubSeq(inner, 1, c - 1))
      this == IF piece = <<>> THEN <<>> ELSE <<piece>>
  IN  IF c = 0 THEN this ELSE this \o ArrayElements(From(inner, c + 1))

\* An array as tomlkit renders it on one line: [e1, e2].
RECURSIVE JoinElements(_)
JoinElements(elems) ==
  IF elems = <<>> THEN <<>>
  ELSE IF Len(elems) = 1 THEN elems[1]
       ELSE elems[1] \o <<",", " ">> \o JoinElements(Tail(elems))

InlineArray(elems) == <<"[">> \o JoinElements(elems) \o <<"]">>

\* _fix_spaces_around_comments, on what follows the value (or the header) on
\* its line: no comment gives nothing; a comment gives one space, "# " and its
\* stripped text, unless the text itself starts with "#", which leaves the
\* comment and the whitespace before it as written.
FixSpacesAroundComments(tail) ==
  LET h == IndexOf(tail, "#")
      comment_text == Strip(From(tail, h + 1))
  IN  IF h = 0 THEN <<>>
      ELSE IF comment_text # <<>> /\ Head(comment_text) = "#" THEN RStrip(tail)
      ELSE <<" ", "#", " ">> \o comment_text

\* The value of a key-value fragment, from the text after its "=":
\* [val, elems, array, tail], val being the value as the rebuilt item renders
\* it and tail what follows the value.  A multi-line literal string keeps its
\* text; an array is rebuilt from its unwrapped elements, every other value
\* is kept as written.
ParsedValue(rest) ==
  IF OccursAt(rest, Quote3, 1)
    THEN LET close == Find(rest, Quote3, 4)
         IN  [val |-> SubSeq(rest, 1, close + 2), elems |-> <<>>, array |-> FALSE,
              tail |-> From(rest, close + 3)]
  ELSE IF rest # <<>> /\ Head(rest) = "["
    THEN LET close == IndexOf(rest, "]")
             elems == ArrayElements(SubSeq(rest, 2, close - 1))
         IN  [val |-> InlineArray(elems), elems |-> elems, array |-> TRUE,
              tail |-> From(rest, close + 1)]
  ELSE LET h == IndexOf(rest, "#")
       IN  [val |-> IF h = 0 THEN rest ELSE RStrip(SubSeq(rest, 1, h - 1)),
            elems |-> <<>>, array |-> FALSE,
            tail |-> IF h = 0 THEN <<>> ELSE From(rest, h)]

\* ParsedTomlFileEntry(single_entry_string): the atomic entry a self-contained
\* fragment parses to.  kind is the class of the tomlkit item together with
\* defined_as_key_value: "table"/"aot" are structural headers, "dotted" is a
\* dotted-key assignment (a Table item with defined_as_key_value), "kv" a plain
\* key-value, "comment" a Comment and "blank" a Whitespace item.  array tells
\* an Array item, elems are its elements and multiline its layout; comment is
\* the trailing comment with the whitespace before it.  id is the identity of
\* the Python object (the number of the input line that completed it).
ParsedTomlFileEntry(line, id) ==
  LET s    == LStrip(line)
      ind  == Len(line) - Len(s)
      body == StripWs(s)
      eq   == IndexOf(body, "=")
      key  == NoSpaces(SubSeq(body, 1, eq - 1))
      v    == ParsedValue(LStrip(From(body, eq + 1)))
      hash == IndexOf(body, "#")
      head == IF hash = 0 THEN body ELSE RStrip(SubSeq(body, 1, hash - 1))
      none == [kind |-> "blank", key |-> <<>>, val |-> <<>>, indent |-> 0, id |-> id,
               comment |-> <<>>, elems |-> <<>>, array |-> FALSE, multiline |-> FALSE]
  IN  IF body = <<>>
        THEN none
      ELSE IF Head(body) = "#"
        THEN [none EXCEPT !.kind = "comment", !.key = body, !.indent = ind]
      ELSE IF Len(body) >= 2 /\ body[1] = "[" /\ body[2] = "["
        \* the trivia given back to the rebuilt item is that of the AoT, which
        \* holds no comment (the comment is in the trivia of its table)
        THEN [none EXCEPT !.kind = "aot", !.key = NoSpaces(StripBrackets(head)),
                          !.indent = ind]
      ELSE IF Head(body) = "["
        THEN [none EXCEPT !.kind = "table", !.key = NoSpaces(StripBrackets(head)),
                          !.indent = ind,
                          !.comment = FixSpacesAroundComments(From(body, Len(head) + 1))]
      ELSE IF IndexOf(key, ".") # 0
        \* the rebuilt dotted entry carries no trivia of the parsed leaf: the
        \* item of the entry is the super table, the leaf is a new item
        THEN [none EXCEPT !.kind = "dotted", !.key = key, !.val = v.val]
      ELSE [none EXCEPT !.kind = "kv", !.key = key, !.val = v.val, !.indent = ind,
                        !.comment = FixSpacesAroundComments(v.tail),
                        !.elems = v.elems, !.array = v.array]

\* isinstance(entry.item, Whitespace)
IsWhitespace(e) == e.kind = "blank"

\* isinstance(entry.item, Comment)
IsComment(e) == e.kind = "comment"

\* isinstance(entry.item, (Table, AoT)): structural headers and dotted-key
\* assignments alike.
IsTableItem(e) == e.kind \in {"table", "aot", "dotted"}

\* isinstance(entry.item, (Table, AoT)) and not entry.defined_as_key_value
IsStructuralHeader(e) == e.kind \in {"table", "aot"}

\* The lines of an array rendered by Array.add_line: each element on a line
\* of its own after four spaces (the default indent of add_line) and with a
\* comma after it.
RECURSIVE ElementLines(_)
ElementLines(elems) ==
  IF elems = <<>> THEN <<>>
  ELSE <<"\n", " ", " ", " ", " ">> \o elems[1] \o <<",">> \o ElementLines(Tail(elems))

\* str(entry): ParsedTomlFileEntry.__repr__.  A multiline array ends with a
\* line that holds the indentation of the entry and the closing bracket.
EntryRepr(e) ==
  CASE e.kind = "blank"   -> <<>>
    [] e.kind = "comment" -> Spaces(e.indent) \o e.key
    [] e.kind = "table"   -> Spaces(e.indent) \o <<"[">> \o e.key \o <<"]">> \o e.comment
    [] e.kind = "aot"     -> Spaces(e.indent) \o <<"[", "[">> \o e.key \o <<"]", "]">>
    [] e.array /\ e.multiline ->
         Spaces(e.indent) \o e.key \o <<" ", "=", " ", "[">> \o ElementLines(e.elems)
           \o <<"\n">> \o Spaces(e.indent) \o <<"]">> \o e.comment
    [] OTHER -> Spaces(e.indent) \o e.key \o <<" ", "=", " ">> \o e.val \o e.comment

\* entry.key.key.strip().lower(): the key of the entry's item in the tomlkit
\* document body.  For a dotted-key assignment the body holds the
\* first component of the key (the super table the rest hangs from).
SortKey(e) ==
  IF e.kind = "dotted"
  THEN Lower(SubSeq(e.key, 1, IndexOf(e.key, ".") - 1))
  ELSE Lower(e.key)

\* The length a line of an array entry may not exceed to stay on one line.
ArrayLineLimit == 90

\* _indent_atomic_toml_entry together with ParsedTomlFileEntry.indent: a
\* Whitespace item is left alone, every other item starts with indent spaces.
\* An Array item is then laid out again: multiline when it already is, or
\* when a line of indent_str + str(entry) is longer than the limit.
IndentEntry(e, indent) ==
  IF IsWhitespace(e) THEN e
  ELSE
    LET indented == [e EXCEPT !.indent = indent]
        is_multiline == e.multiline
        str_repr == Spaces(indent) \o EntryRepr(indented)
        lines == SplitLines(str_repr)
        should_be_multiline ==
          /\ ~is_multiline
          /\ \E k \in 1..Len(lines) : Len(RStrip(lines[k])) > ArrayLineLimit
    IN  IF e.array
        THEN [indented EXCEPT !.multiline = is_multiline \/ should_be_multiline]
        ELSE indented

\* ------------------------------------------------------- section formatter
\* ParsedTomlFileEntry("\n") of _adjust_empty_lines: a new blank entry.
TomlNewline ==
  [kind |-> "blank", key |-> <<>>, val |-> <<>>, indent |-> 0, id |-> 0,
   comment |-> <<>>, elems |-> <<>>, array |-> FALSE, multiline |-> FALSE]

\* Variant of _remove_consecutive_blanks in which every blank is kept.
RemoveConsecutiveBlanksKeepsAll(es) == es

\* _remove_consecutive_blanks: a blank followed by a blank is dropped.
RECURSIVE RemoveConsecutiveBlanks(_)
RemoveConsecutiveBlanks(es) ==
  IF es = <<>> THEN <<>>
  ELSE IF IsWhitespace(es[1]) /\ Len(es) >= 2 /\ IsWhitespace(es[2])
       THEN RemoveConsecutiveBlanks(Tail(es))
       ELSE <<es[1]>> \o RemoveConsecutiveBlanks(Tail(es))

\* _adjust_empty_lines: from the first to the last non-blank entry, then one blank.
AdjustEmptyLines(es) ==
  LET nb == {i \in 1..Len(es) : ~IsWhitespace(es[i])}
  IN  IF nb = {} THEN <<TomlNewline>>
      ELSE LET first == CHOOSE i \in nb : \A j \in nb : i <= j
               last  == CHOOSE i \in nb : \A j \in nb : j <= i
           IN  SubSeq(es, first, last) \o <<TomlNewline>>

\* sorted(current_sorting_block, key=...): Python's stable sort, as insertion
\* of each entry after the entries whose key is not greater.
RECURSIVE InsertEntry(_, _)
InsertEntry(sorted, e) ==
  IF sorted = <<>> THEN <<e>>
  ELSE IF StrLess(SortKey(e), SortKey(sorted[1]))
       THEN <<e>> \o sorted
       ELSE <<sorted[1]>> \o InsertEntry(Tail(sorted), e)

RECURSIVE SortBlock(_)
SortBlock(block) ==
  IF block = <<>> THEN <<>>
  ELSE InsertEntry(SortBlock(SubSeq(block, 1, Len(block) - 1)), block[Len(block)])

\* _sort_keys: the loop over the entries, with its two accumulators.
RECURSIVE SortKeysLoop(_, _, _, _)
SortKeysLoop(es, i, sorted, block) ==
  IF i > Len(es) THEN sorted
  ELSE IF IsStructuralHeader(es[i])
       THEN SortKeysLoop(es, i + 1, sorted \o <<es[i]>>, block)
  ELSE IF IsComment(es[i]) \/ IsWhitespace(es[i]) \/ i = Len(es)
       THEN SortKeysLoop(es, i + 1, sorted \o SortBlock(block) \o <<es[i]>>, <<>>)
  ELSE SortKeysLoop(es, i + 1, sorted, block \o <<es[i]>>)

\* Variant of _sort_keys with a blank entry no longer closing the sorting block:
\* only comments and the last entry flush.
RECURSIVE SortKeysBlankJoinsLoop(_, _, _, _)
SortKeysBlankJoinsLoop(es, i, sorted, block) ==
  IF i > Len(es) THEN sorted
  ELSE IF IsStructuralHeader(es[i])
       THEN SortKeysBlankJoinsLoop(es, i + 1, sorted \o <<es[i]>>, block)
  ELSE IF IsComment(es[i]) \/ i = Len(es)
       THEN SortKeysBlankJoinsLoop(es, i + 1, sorted \o SortBlock(block) \o <<es[i]>>, <<>>)
  ELSE IF IsWhitespace(es[i])
       THEN SortKeysBlankJoinsLoop(es, i + 1, sorted \o <<es[i]>>, block)
  ELSE SortKeysBlankJoinsLoop(es, i + 1, sorted, block \o <<es[i]>>)

SortKeysBlankJoins(es) == SortKeysBlankJoinsLoop(es, 1, <<>>, <<>>)

\* _sort_keys
SortKeys(es) == SortKeysLoop(es, 1, <<>>, <<>>)

\* FormattedTomlFileSection.is_comment
IsCommentSection(es) == \A i \in 1..Len(es) : IsComment(es[i]) \/ IsWhitespace(es[i])

\* FormattedTomlFileSection._normalise_indentation: the loop over the entries
\* with its running level_number.
RECURSIVE NormaliseLoop(_, _, _, _)
NormaliseLoop(es, i, level_number, indentation) ==
  IF i > Len(es) THEN <<>>
  ELSE <<IndentEntry(es[i], level_number * indentation)>>
       \o NormaliseLoop(es, i + 1,
                        IF IsStructuralHeader(es[i]) THEN level_number + 1
                        ELSE level_number,
                        indentation)

\* Variant of _normalise_indentation in which the level is never raised: every entry is put at level 0.
NormaliseIndentationLevelZero(es, indentation) ==
  [i \in 1..Len(es) |-> IndentEntry(es[i], 0)]

NormaliseIndentation(es, indentation) == NormaliseLoop(es, 1, 0, indentation)

\* Variant of the data setter in which comment-only sections are indented
\* like the others.
FormatSectionIndentsComments(es, indentation) ==
  LET new == IF es # <<>>
             THEN SortKeys(AdjustEmptyLines(RemoveConsecutiveBlanks(es)))
             ELSE es
  IN  NormaliseIndentation(new, indentation)

\* FormattedTomlFileSection.data setter
FormatSection(es, indentation) ==
  LET new == IF es # <<>>
             THEN SortKeys(AdjustEmptyLines(RemoveConsecutiveBlanks(es)))
             ELSE es
  IN  IF IsCommentSection(new) THEN new ELSE NormaliseIndentation(new, indentation)

\* FormattedTomlFileSection.name
SectionName(es) ==
  LET ts == {i \in 1..Len(es) : IsTableItem(es[i])}
  IN  IF ts = {} THEN <<>>
      ELSE StripBrackets(Strip(EntryRepr(es[CHOOSE i \in ts : \A j \in ts : i <= j])))


\* ------------------------------------------------------------- sectionizer
\* Index of the last entry of es that is not in the set of kinds, 0 if none
\* (the code's i_last_valid, counted from 1).
LastNotOfKind(es, kinds) ==
  LET ok == {i \in 1..Len(es) : es[i].kind \notin kinds}
  IN  IF ok = {} THEN 0 ELSE CHOOSE i \in ok : \A j \in ok : j <= i

\* First loop of _split_data_in_sections: acc = [sections, new_section,
\* new_section_start] after the entries before i.
RECURSIVE SplitLoop(_, _, _)
SplitLoop(entries, i, acc) ==
  IF i > Len(entries) THEN acc
  ELSE
    LET entry == entries[i]
        start == IsStructuralHeader(entry)
        ilast == LastNotOfKind(acc.new_section, {"comment"})
        comments_that_belong_to_next_section ==
          SubSeq(acc.new_section, ilast + 1, Len(acc.new_section))
        kept == SubSeq(acc.new_section, 1, ilast)
    IN  IF start
        THEN SplitLoop(entries, i + 1,
               [sections |-> IF kept # <<>> THEN Append(acc.sections, kept)
                             ELSE acc.sections,
                new_section |-> comments_that_belong_to_next_section \o <<entry>>,
                new_section_start |-> TRUE])
        ELSE SplitLoop(entries, i + 1,
               [sections |-> acc.sections,
                new_section |-> Append(acc.new_section, entry),
                new_section_start |-> FALSE])

\* The raw sections: the first loop and the append that follows it, which
\* is skipped when the last entry began a section.
RawSections(entries) ==
  LET acc == SplitLoop(entries, 1,
               [sections |-> <<>>, new_section |-> <<>>, new_section_start |-> TRUE])
  IN  IF ~acc.new_section_start THEN Append(acc.sections, acc.new_section)
      ELSE acc.sections

\* Second loop of _split_data_in_sections: each raw section gives its actual
\* section and its dangling comments, each kept unless all-blank (or empty).
RECURSIVE CarveLoop(_, _, _)
CarveLoop(raws, i, indentation) ==
  IF i > Len(raws) THEN <<>>
  ELSE
    LET section == raws[i]
        ilast == LastNotOfKind(section, {"comment", "blank"})
        actual_section == SubSeq(section, 1, ilast)
        dangling_comments == SubSeq(section, ilast + 1, Len(section))
        Keep(sec) == IF \A k \in 1..Len(sec) : IsWhitespace(sec[k]) THEN <<>>
                     ELSE <<FormatSection(sec, indentation)>>
    IN  Keep(actual_section) \o Keep(dangling_comments)
        \o CarveLoop(raws, i + 1, indentation)

\* _split_data_in_sections
SplitDataInSections(entries, indentation) ==
  CarveLoop(RawSections(entries), 1, indentation)


\* ------------------------------------------------------ document assembler
\* regex.match(name) for the patterns modelled: literal characters and the
\* wildcard ".", matched from the start of the name (re.match anchors there).
RegexMatch(pattern, name) ==
  /\ Len(pattern) <= Len(name)
  /\ \A i \in 1..Len(pattern) : pattern[i] = "." \/ pattern[i] = name[i]

\* sorted(names): Python's sort of plain strings, by code point.
RECURSIVE InsertName(_, _)
InsertName(sorted, n) ==
  IF sorted = <<>> THEN <<n>>
  ELSE IF StrLess(n, sorted[1]) THEN <<n>> \o sorted
       ELSE <<sorted[1]>> \o InsertName(Tail(sorted), n)

RECURSIVE SortedNames(_)
SortedNames(names) ==
  IF names = <<>> THEN <<>>
  ELSE InsertName(SortedNames(SubSeq(names, 1, Len(names) - 1)), names[Len(names)])

\* The names of the sections, by section index (name is a cached property:
\* it is computed once per section).
NamesOf(sections) == [i \in 1..Len(sections) |-> SectionName(sections[i])]

\* manual_order_section_names: [""] and, pattern by pattern, the sorted names
\* that match among those not yet listed.
RECURSIVE ManualOrderSectionNames(_, _, _)
ManualOrderSectionNames(names, override_sorting, listed) ==
  IF override_sorting = <<>> THEN listed
  ELSE
    LET NotListed(n) == \A k \in 1..Len(listed) : listed[k] # n
        Matches(n) == RegexMatch(Head(override_sorting), n)
        section_names_for_match == SelectSeq(names, NotListed)
        matched_section_names ==
          SortedNames(SelectSeq(section_names_for_match, Matches))
    IN  ManualOrderSectionNames(names, Tail(override_sorting),
                                listed \o matched_section_names)

\* manual_order_sections: for each listed name, the first non-comment section
\* of that name (sections are given by their index).
RECURSIVE ManualOrderSections(_, _, _)
ManualOrderSections(sections, names, listed) ==
  IF listed = <<>> THEN <<>>
  ELSE
    LET cand == {i \in 1..Len(sections) :
                   ~IsCommentSection(sections[i]) /\ names[i] = Head(listed)}
    IN  (IF cand = {} THEN <<>> ELSE <<CHOOSE i \in cand : \A j \in cand : i <= j>>)
        \o ManualOrderSections(sections, names, Tail(listed))

\* Variant of the sort key of a section without .lower()
SectionKeyCaseSensitive(name) == Strip(name)

\* The sort key of a section: section.name.strip().lower()
SectionKey(name) == Lower(Strip(name))

\* sorted(block, key=lambda section: section.name.strip().lower()): stable;
\* keys holds the key of every section.
RECURSIVE InsertSection(_, _, _)
InsertSection(sorted, sid, keys) ==
  IF sorted = <<>> THEN <<sid>>
  ELSE IF StrLess(keys[sid], keys[sorted[1]])
       THEN <<sid>> \o sorted
       ELSE <<sorted[1]>> \o InsertSection(Tail(sorted), sid, keys)

RECURSIVE SortedBlock(_, _)
SortedBlock(block, keys) ==
  IF block = <<>> THEN <<>>
  ELSE InsertSection(SortedBlock(SubSeq(block, 1, Len(block) - 1), keys),
                     block[Len(block)], keys)

\* The sorting blocks: a comment section closes the current block and is a
\* block of its own; every block is then sorted and the blocks are chained.
RECURSIVE SortingBlocks(_, _, _, _)
SortingBlocks(to_sort, current_block, sections, keys) ==
  IF to_sort = <<>> THEN SortedBlock(current_block, keys)
  ELSE IF IsCommentSection(sections[Head(to_sort)])
       THEN SortedBlock(current_block, keys) \o <<Head(to_sort)>>
            \o SortingBlocks(Tail(to_sort), <<>>, sections, keys)
       ELSE SortingBlocks(Tail(to_sort), Append(current_block, Head(to_sort)),
                          sections, keys)

\* sections_to_enter_sorting: the sections that are not (by identity) among
\* the manually ordered ones.
SectionsToEnterSorting(sections, placed) ==
  LET NotPlaced(i) == \A k \in 1..Len(placed) : placed[k] # i
  IN  SelectSeq([i \in 1..Len(sections) |-> i], NotPlaced)

\* _get_sorted_sequence_of_sections, as [manual_order_sections, the returned
\* tuple], both sequences of section indices; names are the sections' names.
GetSortedSequenceOfSections(sections, names, override_sorting) ==
  LET placed == ManualOrderSections(sections, names,
                  ManualOrderSectionNames(names, override_sorting, << <<>> >>))
      keys == [i \in 1..Len(names) |-> SectionKey(names[i])]
  IN  [manual |-> placed,
       sorted |-> placed \o SortingBlocks(SectionsToEnterSorting(sections, placed),
                                          <<>>, sections, keys)]

\* str(FormattedToml): the lines of "\n".join(str(section) ...), each section
\* being the "\n"-joined str of its entries (an entry may hold several lines).
RECURSIVE SectionLines(_)
SectionLines(es) ==
  IF es = <<>> THEN <<>>
  ELSE SplitLines(EntryRepr(es[1])) \o SectionLines(Tail(es))

RECURSIVE ReprLines(_, _)
ReprLines(sections, order) ==
  IF order = <<>> THEN <<>>
  ELSE SectionLines(sections[Head(order)]) \o ReprLines(sections, Tail(order))


\* ------------------------------------------------------------ entry parser
\* Variant of the parser's test in which every fragment parses: each line
\* is an entry of its own.
EveryLineParses(str_to_parse) == TRUE

\* Whether ParsedTomlFileEntry(str_to_parse) succeeds, that is, whether the
\* fragment is one complete entry: a blank, comment or header line, or a
\* key-value whose value is complete (a multi-line literal string is closed
\* by its second delimiter, an array by its bracket, any other value ends
\* with its line).  Every other fragment raises UnexpectedEofError or
\* UnexpectedCharError.
ParsesAsEntry(str_to_parse) ==
  LET body == StripWs(str_to_parse)
      nl   == IndexOf(body, "\n")
      eq   == IndexOf(body, "=")
      rest == LStrip(From(body, eq + 1))
  IN  IF body = <<>> THEN TRUE
      ELSE IF Head(body) \in {"#", "["} THEN nl = 0
      ELSE IF eq = 0 \/ (nl # 0 /\ nl < eq) THEN FALSE
      ELSE IF OccursAt(rest, Quote3, 1) THEN Find(rest, Quote3, 4) # 0
      ELSE IF rest # <<>> /\ Head(rest) = "[" THEN IndexOf(rest, "]") # 0
      ELSE rest # <<>> /\ nl = 0

\* TomlFileEntriesContainer.data setter: the loop over the lines.  Each line
\* is joined to the lines that failed to parse before it; a fragment that
\* parses gives one atomic entry and empties the buffer, one that does not
\* is kept in the buffer.
RECURSIVE ParseLoop(_, _, _, _)
ParseLoop(lines, i, entries, buffer) ==
  IF i > Len(lines)
  THEN [atomic_entries |-> entries, previous_lines_failed_to_parse |-> buffer]
  ELSE
    LET str_to_parse == JoinLines(Append(buffer, lines[i]))
    IN  IF ParsesAsEntry(str_to_parse)
        THEN ParseLoop(lines, i + 1,
                       Append(entries, ParsedTomlFileEntry(str_to_parse, i)), <<>>)
        ELSE ParseLoop(lines, i + 1, entries, Append(buffer, lines[i]))


\* ------------------------------------------------------------- tomli.loads
\* The components of a dotted name.
RECURSIVE SplitDots(_)
SplitDots(name) ==
  LET d == IndexOf(name, ".")
  IN  IF d = 0 THEN <<name>>
      ELSE <<SubSeq(name, 1, d - 1)>> \o SplitDots(SubSeq(name, d + 1, Len(name)))

\* The data of a document is a set of facts: <<"table", path>> for every table
\* that exists and <<"key", path, key, value>> for every key of a table.  A path
\* is a sequence of [n |-> component, i |-> element], element being 0 for a
\* table and the position in the array for an array-of-tables element.
\* Number of elements of the array of tables named c under the path pre.
Elements(facts, pre, c) ==
  Cardinality({f \in facts : f[1] = "table" /\ Len(f[2]) = Len(pre) + 1
                 /\ SubSeq(f[2], 1, Len(pre)) = pre
                 /\ f[2][Len(pre) + 1].n = c /\ f[2][Len(pre) + 1].i > 0})

\* The path a sequence of components resolves to: a component that names an
\* array of tables stands for its last element.
RECURSIVE Resolve(_, _, _)
Resolve(facts, pre, comps) ==
  IF comps = <<>> THEN pre
  ELSE Resolve(facts,
               Append(pre, [n |-> Head(comps), i |-> Elements(facts, pre, Head(comps))]),
               Tail(comps))

\* <<"table", q>> for every non-empty prefix q of path.
TableFacts(path) == {<<"table", SubSeq(path, 1, k)>> : k \in 1..Len(path)}

\* Whether the path is taken by a key of its parent table.
IsKeyPath(facts, path) ==
  \E f \in facts : f[1] = "key" /\ path # <<>> /\ f[2] = SubSeq(path, 1, Len(path) - 1)
                   /\ f[3] = path[Len(path)].n /\ path[Len(path)].i = 0

\* One entry of the document, applied to the loader state
\* [facts, closed, cur, ok]: closed holds the tables that may not be opened
\* again, cur is the table the following keys go to.
LoadLine(st, e) ==
  LET comps == SplitDots(e.key)
      pre == Resolve(st.facts, <<>>, SubSeq(comps, 1, Len(comps) - 1))
      last == comps[Len(comps)]
      tpath == Append(pre, [n |-> last, i |-> 0])
      n == Elements(st.facts, pre, last)
      apath == Append(pre, [n |-> last, i |-> n + 1])
      dpath == st.cur \o [k \in 1..(Len(comps) - 1) |-> [n |-> comps[k], i |-> 0]]
      bad == [st EXCEPT !.ok = FALSE]
  IN  IF ~st.ok THEN st
      ELSE CASE e.kind \in {"blank", "comment"} -> st
        [] e.kind = "table" ->
             IF tpath \in st.closed \/ n > 0 \/ IsKeyPath(st.facts, tpath) THEN bad
             ELSE [facts |-> st.facts \cup TableFacts(tpath),
                   closed |-> st.closed \cup {tpath}, cur |-> tpath, ok |-> TRUE]
        [] e.kind = "aot" ->
             IF <<"table", tpath>> \in st.facts \/ IsKeyPath(st.facts, tpath) THEN bad
             ELSE [facts |-> st.facts \cup TableFacts(apath),
                   closed |-> st.closed \cup {apath}, cur |-> apath, ok |-> TRUE]
        [] e.kind = "kv" ->
             IF (\E f \in st.facts : f[1] = "key" /\ f[2] = st.cur /\ f[3] = e.key)
                \/ <<"table", Append(st.cur, [n |-> e.key, i |-> 0])>> \in st.facts
                \/ Elements(st.facts, st.cur, e.key) > 0
             THEN bad
             ELSE [st EXCEPT !.facts = @ \cup {<<"key", st.cur, e.key, e.val>>}]
        [] OTHER ->
             \* a dotted-key assignment: its tables hang from the current one
             IF (\E f \in st.facts : f[1] = "key" /\ f[2] = dpath /\ f[3] = last)
                \/ (\E k \in (Len(st.cur) + 1)..Len(dpath) :
                      IsKeyPath(st.facts, SubSeq(dpath, 1, k)))
                \/ <<"table", Append(dpath, [n |-> last, i |-> 0])>> \in st.facts
             THEN bad
             ELSE [st EXCEPT !.facts = @ \cup TableFacts(dpath)
                                          \cup {<<"key", dpath, last, e.val>>},
                             !.closed = @ \cup {SubSeq(dpath, 1, k) :
                                                 k \in (Len(st.cur) + 1)..Len(dpath)}]

RECURSIVE LoadLines(_, _)
LoadLines(st, entries) ==
  IF entries = <<>> THEN st ELSE LoadLines(LoadLine(st, Head(entries)), Tail(entries))

\* tomli.loads(text): the data of the text, or "error" when it is not a
\* TOML document (a table or a key defined twice, a value left open).
TomliLoads(lines) ==
  LET parsed == ParseLoop(lines, 1, <<>>, <<>>)
      st == LoadLines([facts |-> {}, closed |-> {}, cur |-> <<>>, ok |-> TRUE],
                      parsed.atomic_entries)
  IN  IF st.ok /\ parsed.previous_lines_failed_to_parse = <<>> THEN st.facts
      ELSE {<<"error">>}


\* ------------------------------------------------------------ FormattedToml
\* str(FormattedToml(raw_data, formatting_options)): the lines of the text
\* the formatting of raw_data renders.
FormattedText(lines, indentation, override_sorting) ==
  LET entries == ParseLoop(lines, 1, <<>>, <<>>).atomic_entries
      sections == SplitDataInSections(entries, indentation)
      got == GetSortedSequenceOfSections(sections, NamesOf(sections), override_sorting)
  IN  ReprLines(sections, got.sorted)


\* ------------------------------------------------------------------- state
VARIABLES
  raw_data,          \* the lines given to FormattedToml (readlines / from_string)
  indentation,       \* formatting_options.indentation
  override_sorting,  \* formatting_options.section_order_overrides
  line_length,       \* formatting_options.line_length
  pc,                \* where the construction of the FormattedToml stands
  atomic_entries,    \* TomlFileEntriesContainer: the entries parsed
  previous_lines_failed_to_parse,  \* the parser's buffer when its loop ended
  sections,          \* the FormattedTomlFileSections the sectionizer made
  names,             \* the cached name of every section
  manual,            \* manual_order_sections, as indices into sections
  order,             \* FormattedToml._sections, as indices into sections
  text,              \* str(FormattedToml), as lines
  data,              \* FormattedToml.data
  run,               \* 1 for the formatting of the input, 2 for that of its output
  first_text,        \* the text the first formatting gave
  command,           \* the `check` command: "none" when it is not run, "check"
                     \* while it runs, then "returned", "exit1" or "raised"
  file_paths,        \* the files examined: the lines of each
  fix_inplace,       \* args.fix_inplace
  show_formatted,    \* args.show_formatted
  n_files,           \* the number of files taken up
  files_in_need_of_formatting,  \* the files found to differ, by position
  stdout,            \* the texts written to sys.stdout
  written,           \* the texts written back to files: [file, text] records
  DEFAULT_CONFIG,    \* the module's default options object (its indentation)
  configs,           \* the options objects callers made, one per such instance
  instances,         \* the FormattedToml objects made so far; formatting_options
                     \* is 0 for DEFAULT_CONFIG, k for configs[k]
  call               \* the last call made on the objects

\* The state of the formatting of one document.
docvars == <<pc, atomic_entries, previous_lines_failed_to_parse, sections, names,
             manual, order, text, data>>

\* The formatting options.
optvars == <<indentation, override_sorting, line_length>>

\* The state of the check command.
cmdvars == <<command, file_paths, fix_inplace, show_formatted, n_files,
             files_in_need_of_formatting, stdout, written>>

\* The objects of the library: the default options and the instances.
objvars == <<DEFAULT_CONFIG, configs, instances, call>>

vars == <<raw_data, optvars, docvars, run, first_text, cmdvars, objvars>>

\* All documents of 1..MaxLines lines over a set of lines.
Docs(lines) == UNION {[1..n -> lines] : n \in 1..MaxLines}

\* The default of the line_length option.
DefaultLineLength == 90

\* The default of the indentation option.
DefaultIndentation == 2

\* No FormattedToml object has been made; DEFAULT_CONFIG is as the module
\* makes it.
NoObjects ==
  /\ DEFAULT_CONFIG = [indentation |-> DefaultIndentation]
  /\ configs = <<>>
  /\ instances = <<>>
  /\ call = [op |-> "none", target |-> 0, value |-> 0]

\* No document is being formatted (or the formatting of one is about to start).
NoDocument ==
  /\ atomic_entries = <<>>
  /\ previous_lines_failed_to_parse = <<>>
  /\ sections = <<>>
  /\ names = <<>>
  /\ manual = <<>>
  /\ order = <<>>
  /\ text = <<>>
  /\ data = {}

\* The state before FormattedToml(raw_data, formatting_options) runs, for the
\* documents docs, the indentation widths widths, the override lists
\* overrides and the line lengths lengths.
InitFormatter(docs, widths, overrides, lengths) ==
  /\ raw_data \in docs
  /\ indentation \in widths
  /\ override_sorting \in overrides
  /\ line_length \in lengths
  /\ pc = "parse"
  /\ NoDocument
  /\ run = 1
  /\ first_text = <<>>
  /\ command = "none"
  /\ file_paths = <<>>
  /\ fix_inplace = FALSE
  /\ show_formatted = FALSE
  /\ n_files = 0
  /\ files_in_need_of_formatting = <<>>
  /\ stdout = <<>>
  /\ written = <<>>
  /\ NoObjects

\* The same under the default line length.
InitWith(docs, widths, overrides) ==
  InitFormatter(docs, widths, overrides, {DefaultLineLength})

\* TomlFileEntriesContainer(data=raw_data): the entries parsed, and what is
\* left in the buffer, which nothing reads.
ParseEntries ==
  /\ pc = "parse"
  /\ LET parsed == ParseLoop(raw_data, 1, <<>>, <<>>)
     IN  /\ atomic_entries' = parsed.atomic_entries
         /\ previous_lines_failed_to_parse' = parsed.previous_lines_failed_to_parse
  /\ pc' = "split"
  /\ UNCHANGED <<raw_data, optvars, sections, names, manual, order, text, data, run,
                 first_text, cmdvars, objvars>>

\* FormattedToml.__init__: _split_data_in_sections makes the formatted
\* sections out of the entries.
SplitSections ==
  /\ pc = "split"
  /\ sections' = SplitDataInSections(atomic_entries, indentation)
  /\ pc' = "sort"
  /\ UNCHANGED <<raw_data, optvars, atomic_entries, previous_lines_failed_to_parse,
                 names, manual, order, text, data, run, first_text, cmdvars, objvars>>

\* FormattedToml.sections setter: the sections are ordered and the rendered
\* text is loaded with tomli; a text tomli rejects raises out of the
\* constructor.
SetSections ==
  /\ pc = "sort"
  /\ LET new_names == NamesOf(sections)
         got == GetSortedSequenceOfSections(sections, new_names, override_sorting)
         new_text == ReprLines(sections, got.sorted)
         loaded == TomliLoads(new_text)
     IN  /\ names' = new_names
         /\ manual' = got.manual
         /\ order' = got.sorted
         /\ text' = new_text
         /\ data' = loaded
         /\ pc' = IF loaded = {<<"error">>} THEN "failed" ELSE "done"
  /\ UNCHANGED <<raw_data, optvars, atomic_entries, previous_lines_failed_to_parse,
                 sections, run, first_text, cmdvars, objvars>>

\* FormattedToml.from_string(str(formatted), formatting_options): the text of
\* the first formatting is split at "\n" and formatted again.
FormatAgain ==
  /\ pc = "done"
  /\ run = 1
  /\ command = "none"
  /\ raw_data' = IF text = <<>> THEN << <<>> >> ELSE text
  /\ first_text' = text
  /\ run' = 2
  /\ pc' = "parse"
  /\ atomic_entries' = <<>>
  /\ previous_lines_failed_to_parse' = <<>>
  /\ sections' = <<>>
  /\ names' = <<>>
  /\ manual' = <<>>
  /\ order' = <<>>
  /\ text' = <<>>
  /\ data' = {}
  /\ UNCHANGED <<optvars, cmdvars, objvars>>

\* ----------------------------------------------------------- check command
\* text.split("\n") of a rendered text (the empty text gives one empty line).
SplitText(lines) == IF lines = <<>> THEN << <<>> >> ELSE lines

\* check_toml_files_format, the loop over the files: the next file is taken
\* up and FormattedToml.from_file starts on its lines.
CheckOpenFile ==
  /\ command = "check"
  /\ pc = "idle"
  /\ n_files < Len(file_paths)
  /\ n_files' = n_files + 1
  /\ raw_data' = file_paths[n_files + 1]
  /\ pc' = "parse"
  /\ atomic_entries' = <<>>
  /\ previous_lines_failed_to_parse' = <<>>
  /\ sections' = <<>>
  /\ names' = <<>>
  /\ manual' = <<>>
  /\ order' = <<>>
  /\ text' = <<>>
  /\ data' = {}
  /\ UNCHANGED <<optvars, run, first_text, command, file_paths, fix_inplace,
                 show_formatted, files_in_need_of_formatting, stdout, written, objvars>>

\* The rest of the loop body: the text of the file (which ends with a line
\* end) and the formatted text are split into lines and compared; a file
\* that differs is recorded, printed under --show-formatted and written back
\* under --fix-inplace.
CheckCompareFile ==
  /\ command = "check"
  /\ pc = "done"
  /\ LET actual_toml == Append(raw_data, <<>>)
         file_needs_formatting == actual_toml # SplitText(text)
     IN  /\ files_in_need_of_formatting' =
              IF file_needs_formatting THEN Append(files_in_need_of_formatting, n_files)
              ELSE files_in_need_of_formatting
         /\ stdout' = IF file_needs_formatting /\ show_formatted
                      THEN Append(stdout, text) ELSE stdout
         /\ written' = IF file_needs_formatting /\ fix_inplace
                       THEN Append(written, [file |-> n_files, text |-> text])
                       ELSE written
  /\ pc' = "idle"
  /\ UNCHANGED <<raw_data, optvars, atomic_entries, previous_lines_failed_to_parse,
                 sections, names, manual, order, text, data, run, first_text,
                 command, file_paths, fix_inplace, show_formatted, n_files, objvars>>

\* The constructor raised (tomli rejected the rendered text): the exception
\* leaves the command.
CheckFileRaises ==
  /\ command = "check"
  /\ pc = "failed"
  /\ command' = "raised"
  /\ UNCHANGED <<raw_data, optvars, docvars, run, first_text, file_paths, fix_inplace,
                 show_formatted, n_files, files_in_need_of_formatting, stdout, written, objvars>>

\* Variant of the end of the command in which --fix-inplace does not
\* spare the error code.
CheckEndExitsWheneverInNeed ==
  /\ command = "check"
  /\ pc = "idle"
  /\ n_files = Len(file_paths)
  /\ command' = IF files_in_need_of_formatting # <<>> THEN "exit1" ELSE "returned"
  /\ UNCHANGED <<raw_data, optvars, docvars, run, first_text, file_paths, fix_inplace,
                 show_formatted, n_files, files_in_need_of_formatting, stdout, written, objvars>>

\* After the loop: SystemExit(1) when files need formatting and --fix-inplace
\* is not given, a normal return otherwise.
CheckEnd ==
  /\ command = "check"
  /\ pc = "idle"
  /\ n_files = Len(file_paths)
  /\ command' = IF files_in_need_of_formatting # <<>> /\ ~fix_inplace THEN "exit1"
                ELSE "returned"
  /\ UNCHANGED <<raw_data, optvars, docvars, run, first_text, file_paths, fix_inplace,
                 show_formatted, n_files, files_in_need_of_formatting, stdout, written, objvars>>

\* The check command runs over its files.
NextCheck ==
  \/ CheckOpenFile
  \/ ParseEntries
  \/ SplitSections
  \/ SetSections
  \/ CheckCompareFile
  \/ CheckFileRaises
  \/ CheckEnd

\* One document is formatted.
Next == ParseEntries \/ SplitSections \/ SetSections

\* One document is formatted, and the text it gives is formatted again.
NextTwice == ParseEntries \/ SplitSections \/ SetSections \/ FormatAgain

\* ------------------------------------------------------------ input lines
LineX      == <<"x", " ", "=", " ", "1">>
LineAK     == <<"a", " ", "=", " ", "1">>
LineY      == <<" ", " ", " ", "B", "=", "2">>
LineTB     == <<"t", ".", "b", " ", "=", " ", "1">>
LineTA     == <<"t", ".", "a", " ", "=", " ", "2">>
LineA      == <<"[", "a", "]">>
LineB      == <<" ", "[", " ", "B", " ", "]">>
LineC      == <<"[", "[", "c", "]", "]">>
LineCD     == <<"[", "c", ".", "d", "]">>
LineK      == <<"#", " ", "k">>
LineKK     == <<" ", " ", " ", "#", " ", "k">>
LineBlank  == <<>>

\* n times the character c.
Rep(c, n) == [i \in 1..n |-> c]

\* x = [1, "xx...x"] with a string of n characters: a line of n + 11 characters.
ArrayLine(n) ==
  <<"x", " ", "=", " ", "[", "1", ",", " ", "\"">> \o Rep("x", n) \o <<"\"", "]">>

\* The same with a trailing comment, which is rendered as " # k".
ArrayLineK(n) == ArrayLine(n) \o <<" ", " ", "#", "k">>

\* The same array with one element per line, the last without a comma.
ArrayBlock(n) ==
  << <<"x", " ", "=", " ", "[">>, <<" ", "1", ",">>,
     <<"\"">> \o Rep("x", n) \o <<"\"">>, <<"]">> >>

\* The lengths of the string: the arrays' lines are then of 12 characters and
\* of the lengths about 80, 90 and 100, less up to four for the indentation.
ArrayStrings == {1, 65, 66, 69, 70, 75, 76, 77, 78, 79, 80, 85, 86, 89, 90}

\* Lines with a trailing comment: a plain key, a dotted key and a table header.
LineXK     == <<"x", " ", "=", " ", "1", " ", " ", "#", "k">>
LineTBK    == <<"t", ".", "b", " ", "=", " ", "1", " ", "#", " ", "k">>
LineAK2    == <<"[", "a", "]", " ", "#", "k">>

\* A key indented by two spaces, as the formatter prints it below a header.
LineXI     == <<" ", " ", "x", " ", "=", " ", "1">>

\* The first and the last line of a multi-line literal string.
LineYS     == <<"y", " ", " ", "=", " ", "'", "'", "'">>
LineQ      == <<"'", "'", "'">>

\* The lines of the key y with a multi-line literal string of the given lines.
StringBlock(content) == <<LineYS>> \o content \o <<LineQ>>

\* All documents of 1..MaxBlocks blocks over a set of blocks of lines.
RECURSIVE ConcatBlocks(_)
ConcatBlocks(bs) == IF bs = <<>> THEN <<>> ELSE Head(bs) \o ConcatBlocks(Tail(bs))

BlockDocs(blocks) ==
  {ConcatBlocks(f) : f \in UNION {[1..n -> blocks] : n \in 1..MaxBlocks}}

\* The lines of a text that ends with a newline, as FormattedToml.from_string
\* splits it: the lines of the text and one empty line.
FromString(docs) == {d \o <<LineBlank>> : d \in docs}

\* ---------------------------------------------------------- specifications
\* Documents with top-level keys (plain and dotted), tables and comments.
InitTop ==
  InitWith(Docs({LineX, LineTB, LineA, LineB, LineKK, LineBlank}),
           {2}, {<<>>, << <<"a">> >>})

SpecTop == InitTop /\ [][Next]_vars

SpecTopTwice == InitTop /\ [][NextTwice]_vars

\* Texts with tables, arrays of tables and their sub-tables.
InitContent ==
  InitWith(FromString(Docs({LineX, LineA, LineC, LineCD, LineBlank})), {2}, {<<>>})

SpecContent == InitContent /\ [][Next]_vars

\* Texts with a top-level key, tables, a repeated array of tables and
\* comment blocks, under override lists of zero, one and two patterns.
InitOrder ==
  InitWith(FromString(Docs({LineX, LineA, LineB, LineC, LineKK, LineBlank})), {2},
           {<<>>, << <<"c">> >>, << <<".">> >>, << <<"B">>, <<"a">> >>})

SpecOrder == InitOrder /\ [][Next]_vars

\* Documents with plain keys of both cases, dotted keys of one table, a
\* table, comments and blank lines.
InitKeys ==
  InitWith(Docs({LineAK, LineY, LineTB, LineTA, LineA, LineK, LineBlank}), {2}, {<<>>})

SpecKeys == InitKeys /\ [][Next]_vars

\* Documents whose lines come with and without leading spaces, under three
\* indentation widths.
InitIndent ==
  InitWith(Docs({LineX, LineY, LineA, LineKK, LineBlank}), {0, 2, 4}, {<<>>})

SpecIndent == InitIndent /\ [][Next]_vars

\* Documents of one array-valued key, on one line (with and without a
\* trailing comment) or on several lines, at the top level or below a table
\* header, under three indentation widths and three line lengths.
ArrayDocs ==
  LET arrays == {<<ArrayLine(n)>> : n \in ArrayStrings}
                  \cup {<<ArrayLineK(n)>> : n \in ArrayStrings}
                  \cup {ArrayBlock(n) : n \in ArrayStrings}
  IN  arrays \cup {<<LineA>> \o d : d \in arrays}

InitArrays == InitFormatter(ArrayDocs, {0, 2, 4}, {<<>>}, {80, 90, 100})

SpecArrays == InitArrays /\ [][Next]_vars

\* Documents with a table header, keys, a comment and blank lines, and with
\* multi-line literal strings whose lines look like a header, a key and an
\* indented comment.
InitStrings ==
  InitWith(BlockDocs({<<LineA>>, <<LineX>>, <<LineK>>, <<LineBlank>>,
                      StringBlock(<<LineX>>), StringBlock(<<LineA, LineKK>>),
                      StringBlock(<<LineBlank, LineB>>)}),
           {2}, {<<>>})

SpecStrings == InitStrings /\ [][Next]_vars

\* Documents of headers, keys, comments and blank lines that end as they
\* are or with a multi-line literal string that is never closed.
InitTruncated ==
  InitWith({d \o u : d \in BlockDocs({<<LineA>>, <<LineX>>, <<LineK>>, <<LineBlank>>}),
                     u \in {<<>>, <<LineYS>>, <<LineYS, LineA>>,
                            <<LineYS, LineX, LineBlank>>}},
           {2}, {<<>>})

SpecTruncated == InitTruncated /\ [][Next]_vars

\* Texts whose lines carry comments: standalone, and trailing on a plain key,
\* on a dotted key, on an array-valued key and on a table header.
InitComments ==
  InitWith(FromString(Docs({LineXK, LineTBK, LineAK2, ArrayLineK(1), LineK, LineBlank})),
           {2}, {<<>>})

SpecComments == InitComments /\ [][Next]_vars

\* The check command over one or two files of one or two lines, some of them
\* formatted already, some not, and some that tomli rejects (a key given
\* twice), under every combination of --fix-inplace and --show-formatted.
CheckFiles ==
  LET lines == {LineX, LineY, LineA, LineXI}
      files == {<<l>> : l \in lines} \cup {<<l, m>> : l, m \in lines}
  IN  {<<f>> : f \in files} \cup {<<f, g>> : f, g \in files}

InitCheck ==
  /\ command = "check"
  /\ file_paths \in CheckFiles
  /\ fix_inplace \in BOOLEAN
  /\ show_formatted \in BOOLEAN
  /\ n_files = 0
  /\ files_in_need_of_formatting = <<>>
  /\ stdout = <<>>
  /\ written = <<>>
  /\ NoObjects
  /\ raw_data = <<>>
  /\ indentation = 2
  /\ override_sorting = <<>>
  /\ line_length = DefaultLineLength
  /\ pc = "idle"
  /\ NoDocument
  /\ run = 1
  /\ first_text = <<>>

SpecCheck == InitCheck /\ [][NextCheck]_vars

\* ------------------------------------------------------ FormattedToml objects
\* The options object a reference stands for.
OptionsOf(ref) == IF ref = 0 THEN DEFAULT_CONFIG ELSE configs[ref]

\* FormattedToml(raw_data) and FormattedToml(raw_data, formatting_options)
\* with a ParsedConfig the caller has just made (section_order_overrides left
\* empty): the instance keeps a reference to the options object, DEFAULT_CONFIG
\* when none is given; the sections are made and ordered with the indentation
\* that object holds now.  A text tomli rejects makes the constructor raise.
NewFormattedToml ==
  \E lines \in {<<LineX>>, <<LineA, LineX>>, <<LineB, LineKK, LineA, LineX>>} :
  \E own \in BOOLEAN : \E n \in {0, 4} :
    /\ command = "none"
    /\ pc = "idle"
    /\ Len(instances) < MaxInstances
    /\ LET new_configs == IF own THEN Append(configs, [indentation |-> n]) ELSE configs
           ref == IF own THEN Len(new_configs) ELSE 0
           width == IF own THEN n ELSE DEFAULT_CONFIG.indentation
           entries == ParseLoop(lines, 1, <<>>, <<>>).atomic_entries
           new == SplitDataInSections(entries, width)
           got == GetSortedSequenceOfSections(new, NamesOf(new), <<>>)
           new_text == ReprLines(new, got.sorted)
       IN  /\ TomliLoads(new_text) # {<<"error">>}
           /\ configs' = new_configs
           /\ instances' = Append(instances,
                [raw_data |-> lines, formatting_options |-> ref, sections |-> new,
                 order |-> got.sorted, text |-> new_text])
           /\ call' = [op |-> "new", target |-> Len(instances) + 1, value |-> width]
    /\ UNCHANGED <<raw_data, optvars, docvars, run, first_text, cmdvars, DEFAULT_CONFIG>>

\* instance.indentation = n: the options object the instance refers to gets
\* the value, and the sections setter runs on the instance's own sections:
\* each is given the options object and they are ordered again; nothing
\* formats their entries again.
SetIndentation ==
  \E i \in 1..Len(instances) : \E n \in {0, 2, 4} :
    /\ command = "none"
    /\ pc = "idle"
    /\ LET self == instances[i]
           ref == self.formatting_options
           current == [k \in 1..Len(self.order) |-> self.sections[self.order[k]]]
           got == GetSortedSequenceOfSections(current, NamesOf(current), <<>>)
           new_order == [k \in 1..Len(got.sorted) |-> self.order[got.sorted[k]]]
       IN  /\ DEFAULT_CONFIG' = IF ref = 0 THEN [DEFAULT_CONFIG EXCEPT !.indentation = n]
                                ELSE DEFAULT_CONFIG
           /\ configs' = IF ref = 0 THEN configs
                         ELSE [configs EXCEPT ![ref].indentation = n]
           /\ instances' = [instances EXCEPT
                              ![i].order = new_order,
                              ![i].text = ReprLines(self.sections, new_order)]
           /\ call' = [op |-> "indentation", target |-> i, value |-> n]
    /\ UNCHANGED <<raw_data, optvars, docvars, run, first_text, cmdvars>>

\* Objects are made and their indentation is assigned.
NextObjects == NewFormattedToml \/ SetIndentation

\* Up to MaxInstances FormattedToml objects, with and without options of
\* their own, and assignments to their indentation.
InitObjects ==
  /\ command = "none"
  /\ file_paths = <<>>
  /\ fix_inplace = FALSE
  /\ show_formatted = FALSE
  /\ n_files = 0
  /\ files_in_need_of_formatting = <<>>
  /\ stdout = <<>>
  /\ written = <<>>
  /\ NoObjects
  /\ raw_data = <<>>
  /\ indentation = DefaultIndentation
  /\ override_sorting = <<>>
  /\ line_length = DefaultLineLength
  /\ pc = "idle"
  /\ NoDocument
  /\ run = 1
  /\ first_text = <<>>

SpecObjects == InitObjects /\ [][NextObjects]_vars

\* ------------------------------------------------------------------ claims
\* The formatting of the input has ended (with a text or with an error).
Ended == run = 1 /\ pc \in {"done", "failed"}

\* The formatting of the input has returned a text.
Returned == run = 1 /\ pc = "done"

\* The input is a TOML document.
ValidInput == TomliLoads(raw_data) # {<<"error">>}

\* C1: formatting is a projection: formatting the text a formatting returned
\* (with the same options) returns that text unchanged.
C1_Projection ==
  (run = 2 /\ pc \in {"done", "failed"}) => (pc = "done" /\ text = first_text)

\* C2: content preservation: whenever formatting a valid input returns a
\* text, the data parsed from that text equals the data parsed from the input.
C2_ContentPreserved ==
  (Returned /\ ValidInput) => TomliLoads(text) = TomliLoads(raw_data)

\* C3: the content-equality post-condition is a gate: when the data parsed
\* from the serialized result differs from the data parsed from the input, the
\* construction of the formatted document fails.
C3_ContentGate ==
  (Ended /\ ValidInput /\ data # TomliLoads(raw_data)) => pc = "failed"

\* The entries of the input that are key-values before the first structural header.
TopLevelKeys ==
  {i \in 1..Len(atomic_entries) :
     /\ atomic_entries[i].kind \in {"kv", "dotted"}
     /\ \A j \in 1..(i - 1) : ~IsStructuralHeader(atomic_entries[j])}

\* C4: whenever the input has key-value entries before its first structural
\* header, the section that holds them is the first section of the output.
C4_TopLevelFirst ==
  (Ended /\ TopLevelKeys # {}) =>
     /\ order # <<>>
     /\ \A i \in TopLevelKeys :
          \E k \in 1..Len(sections[order[1]]) : sections[order[1]][k].id = i


\* The section at place k of the output.
Out(k) == sections[order[k]]

\* The top-level section: a non-comment section without structural header.
IsTopLevel(sec) ==
  ~IsCommentSection(sec) /\ \A k \in 1..Len(sec) : ~IsStructuralHeader(sec[k])

\* The number of the first override pattern that matches the name, 0 if none does.
FirstPattern(name) ==
  LET hits == {p \in 1..Len(override_sorting) : RegexMatch(override_sorting[p], name)}
  IN  IF hits = {} THEN 0 ELSE CHOOSE p \in hits : \A q \in hits : p <= q

\* The table section at place k matches an override pattern.
Overridden(k) ==
  /\ ~IsCommentSection(Out(k))
  /\ ~IsTopLevel(Out(k))
  /\ FirstPattern(names[order[k]]) > 0

\* C5: every non-comment section whose name matches an override pattern comes
\* after the top-level section and before every section that matches no
\* pattern, and sections first matched by an earlier pattern come before those
\* first matched by a later one.
C5_OverridePlacement ==
  Ended =>
    \A k \in 1..Len(order) : Overridden(k) =>
      \A j \in 1..Len(order) :
        /\ IsTopLevel(Out(j)) => j < k
        /\ (~IsTopLevel(Out(j)) /\ ~Overridden(j)) => k < j
        /\ (Overridden(j) /\ FirstPattern(names[order[k]])
                              < FirstPattern(names[order[j]])) => k < j

\* C6: sections matched by the same override pattern are ordered among
\* themselves case-insensitively by name.
C6_OverrideCaseInsensitive ==
  Ended =>
    \A k, j \in 1..Len(order) :
      (/\ k < j
       /\ Overridden(k) /\ Overridden(j)
       /\ FirstPattern(names[order[k]]) = FirstPattern(names[order[j]]))
      => ~StrLess(Lower(names[order[j]]), Lower(names[order[k]]))

\* The sections that neither the top-level rule nor an override pattern placed.
Unplaced == {i \in 1..Len(sections) : \A k \in 1..Len(manual) : manual[k] # i}

\* The output after the manually placed sections.
Rest == SubSeq(order, Len(manual) + 1, Len(order))

\* No dangling-comment section lies at places k..l of Rest.
SameRun(k, l) == \A m \in k..l : ~IsCommentSection(sections[Rest[m]])

\* C7: for the sections not placed by the top-level rule or an override: the
\* output is a permutation of them in which every section has as many
\* dangling-comment sections before it as in the input (no section crosses a
\* separator, separators keep their order), and each run between separators is
\* the stable case-insensitive sort by name of the input run.
C7_BlocksSortedBetweenSeparators ==
  Ended =>
    /\ Len(Rest) = Cardinality(Unplaced)
    /\ {Rest[k] : k \in 1..Len(Rest)} = Unplaced
    /\ \A k \in 1..Len(Rest) :
         Cardinality({m \in 1..(k - 1) : IsCommentSection(sections[Rest[m]])})
           = Cardinality({i \in Unplaced : i < Rest[k] /\ IsCommentSection(sections[i])})
    /\ \A k, l \in 1..Len(Rest) :
         (k < l /\ SameRun(k, l)) =>
           LET nk == Lower(names[Rest[k]])
               nl == Lower(names[Rest[l]])
           IN  /\ ~StrLess(nl, nk)
               /\ nk = nl => Rest[k] < Rest[l]

\* A separator with a section on each side that sorting by name alone would
\* have swapped, after a run of two sections that sorting did swap.
C7_Witness ==
  /\ Ended
  /\ \E k, l \in 1..Len(Rest) :
       /\ k + 1 < l
       /\ IsCommentSection(sections[Rest[k + 1]])
       /\ ~IsCommentSection(sections[Rest[k]])
       /\ ~IsCommentSection(sections[Rest[l]])
       /\ StrLess(Lower(names[Rest[l]]), Lower(names[Rest[k]]))
  /\ \E k \in 1..(Len(Rest) - 1) : SameRun(k, k + 1) /\ Rest[k] > Rest[k + 1]


\* The entry is a key-value entry (a plain or a dotted-key assignment).
IsKeyValue(e) == e.kind \in {"kv", "dotted"}

\* The entries of the output in order, each with the place of its section.
RECURSIVE Flat(_)
Flat(k) ==
  IF k > Len(order) THEN <<>>
  ELSE [m \in 1..Len(Out(k)) |-> [place |-> k, e |-> Out(k)[m]]] \o Flat(k + 1)

\* The input entries p..q are key-values of one sort block of the input.
InputSameBlock(p, q) == \A m \in p..q : IsKeyValue(atomic_entries[m])

\* C8: in every formatted section each maximal run of consecutive key-value
\* entries is in case-insensitive lexicographic order of the entries' keys and
\* holds exactly the key-value entries of the corresponding run of the input.
C8_SortBlocksSorted ==
  Ended =>
    LET out == Flat(1)
        kvs == {i \in 1..Len(out) : IsKeyValue(out[i].e)}
    IN  /\ \A i \in kvs : (i + 1) \in kvs =>
             ~StrLess(Lower(out[i + 1].e.key), Lower(out[i].e.key))
        /\ \A p \in 1..Len(atomic_entries) : IsKeyValue(atomic_entries[p]) =>
             Cardinality({i \in kvs : out[i].e.id = p}) = 1
        /\ \A i, j \in kvs : i < j =>
             ((\A m \in i..j : m \in kvs)
                <=> InputSameBlock(IF out[i].e.id < out[j].e.id THEN out[i].e.id
                                   ELSE out[j].e.id,
                                   IF out[i].e.id < out[j].e.id THEN out[j].e.id
                                   ELSE out[i].e.id))

\* The input entries p < q are key-values of one section with a comment or a
\* blank entry between them.
Separated(p, q) ==
  /\ p < q
  /\ IsKeyValue(atomic_entries[p]) /\ IsKeyValue(atomic_entries[q])
  /\ \A m \in p..q : ~IsStructuralHeader(atomic_entries[m])
  /\ \E m \in p..q : IsComment(atomic_entries[m]) \/ IsWhitespace(atomic_entries[m])

\* C9: two key-value entries of a section with a comment or a blank between
\* them in the input are in the output, in one section, in their input order.
C9_SeparatedKeysKeepOrder ==
  Ended =>
    LET out == Flat(1)
    IN  \A p, q \in 1..Len(atomic_entries) : Separated(p, q) =>
          /\ \E i, j \in 1..Len(out) :
               out[i].e.id = p /\ out[j].e.id = q /\ out[i].place = out[j].place
          /\ \A i, j \in 1..Len(out) :
               (out[i].e.id = p /\ out[j].e.id = q /\ out[i].place = out[j].place)
                 => i < j

\* A text was returned for an input with two separated key-values that are
\* out of lexicographic order.
C9_Witness ==
  /\ Returned
  /\ \E p, q \in 1..Len(atomic_entries) :
       /\ Separated(p, q)
       /\ StrLess(SortKey(atomic_entries[q]), SortKey(atomic_entries[p]))

\* Number of spaces a line starts with.
LeadingSpaces(line) == Len(line) - Len(LStrip(line))

\* The level in force at entry k of a section: the number of structural
\* headers before it.
LevelAt(sec, k) == Cardinality({j \in 1..(k - 1) : IsStructuralHeader(sec[j])})

\* Entry k of the section at place o starts with level x indentation spaces.
IndentedAtLevel(o, k) ==
  LeadingSpaces(EntryRepr(Out(o)[k])) = LevelAt(Out(o), k) * indentation

SingleLine(e) ==
  Spaces(e.indent) \o e.key \o <<" ", "=", " ">> \o InlineArray(e.elems) \o e.comment

\* The entry is rendered on several lines: the key and the opening bracket,
\* each element on its line with a comma after it, the closing bracket.
RenderedMultiline(e) ==
  LET ls == SplitLines(EntryRepr(e))
  IN  /\ Len(ls) = Len(e.elems) + 2
      /\ \A j \in 1..Len(e.elems) : LStrip(ls[j + 1]) = e.elems[j] \o <<",">>
      /\ LStrip(ls[Len(ls)]) = <<"]">> \o e.comment

\* The entry is rendered on one line, without trailing comma.
RenderedInline(e) == EntryRepr(e) = SingleLine(e)

\* C11: an array-valued entry whose full single line (indentation counted
\* once, key, inline value, trailing comment) is longer than the line_length
\* option is rendered multiline with a comma after every element; one whose
\* line fits within line_length is rendered inline without trailing comma.
C11_ArrayLayoutByLineLength ==
  Ended =>
    \A o \in 1..Len(order) : \A k \in 1..Len(Out(o)) :
      Out(o)[k].array =>
        IF Len(SingleLine(Out(o)[k])) > line_length
        THEN RenderedMultiline(Out(o)[k])
        ELSE RenderedInline(Out(o)[k])

\* The lines of a document with every array written on one line: the lines
\* of a fragment that is an array are joined without the line breaks.
RECURSIVE InlineArraysLoop(_, _, _)
InlineArraysLoop(lines, i, buffer) ==
  IF i > Len(lines) THEN buffer
  ELSE
    LET fragment == Append(buffer, lines[i])
        joined == JoinLines(fragment)
        RECURSIVE Concat(_)
        Concat(ls) == IF ls = <<>> THEN <<>> ELSE Head(ls) \o Concat(Tail(ls))
    IN  IF ~ParsesAsEntry(joined) THEN InlineArraysLoop(lines, i + 1, fragment)
        ELSE (IF ParsedTomlFileEntry(joined, 0).array THEN <<Concat(fragment)>>
              ELSE fragment)
             \o InlineArraysLoop(lines, i + 1, <<>>)

InlineArrays(lines) == InlineArraysLoop(lines, 1, <<>>)

\* The entry of the input that the line numbered id completed was written on
\* several lines.
WrittenOnSeveralLines(id) ==
  \E p \in 1..Len(atomic_entries) :
    /\ atomic_entries[p].id = id
    /\ (IF p = 1 THEN 0 ELSE atomic_entries[p - 1].id) + 1 < id

\* C12 (as stated): an array whose input text contains an internal line
\* break is rendered multiline in the output, whatever the length of its
\* single-line rendering.
C12_MultilineInputStaysMultiline ==
  Ended =>
    \A o \in 1..Len(order) : \A k \in 1..Len(Out(o)) :
      (Out(o)[k].array /\ WrittenOnSeveralLines(Out(o)[k].id))
        => RenderedMultiline(Out(o)[k])

\* C12 (amended): an array whose input text contains internal line breaks is
\* rendered as the same array written on one line is: the text formatting
\* gives is the text it gives for the document with the arrays' line breaks
\* removed.
C12_MultilineInputRenderedAsInlineInput ==
  Ended => text = FormattedText(InlineArrays(raw_data), indentation, override_sorting)

\* An array written on several lines was rendered on one line.
C12_Witness ==
  /\ Returned
  /\ \E o \in 1..Len(order) : \E k \in 1..Len(Out(o)) :
       /\ Out(o)[k].array
       /\ WrittenOnSeveralLines(Out(o)[k].id)
       /\ RenderedInline(Out(o)[k])
       /\ Len(Out(o)[k].elems) = 2

\* C13: the layout of an array in the output depends only on the length of
\* its single-line rendering and not on the layout of the input: an array
\* written on several lines whose single-line rendering fits within
\* line_length is rendered inline, and the text formatting gives is the text
\* it gives for the document with the arrays' line breaks removed.
C13_LayoutByLengthOnly ==
  Ended =>
    /\ text = FormattedText(InlineArrays(raw_data), indentation, override_sorting)
    /\ \A o \in 1..Len(order) : \A k \in 1..Len(Out(o)) :
         (/\ Out(o)[k].array
          /\ WrittenOnSeveralLines(Out(o)[k].id)
          /\ Len(SingleLine(Out(o)[k])) <= line_length)
           => RenderedInline(Out(o)[k])

\* Line i of the input holds a delimiter of a multi-line literal string.
HasQuote3(i) == Find(raw_data[i], Quote3, 1) # 0

\* Line i of the input opens a multi-line literal string: it holds a
\* delimiter and an even number of delimiter lines come before it.
OpensLiteral(i) ==
  /\ HasQuote3(i)
  /\ Cardinality({j \in 1..(i - 1) : HasQuote3(j)}) % 2 = 0

\* Line i of the input lies inside a multi-line literal string.
InsideLiteral(i) ==
  /\ ~HasQuote3(i)
  /\ Cardinality({j \in 1..(i - 1) : HasQuote3(j)}) % 2 = 1

\* The line that closes the literal that line i opens.
ClosingLine(i) ==
  CHOOSE c \in (i + 1)..Len(raw_data) :
    HasQuote3(c) /\ \A j \in (i + 1)..(c - 1) : ~HasQuote3(j)

\* C14: a line inside a multi-line string literal is never an entry of its
\* own: no entry is made of it, so headers, comments and keys are those of
\* the lines outside the literals, and when a text is returned the lines of
\* every literal stand in it together, in order and unchanged, after the
\* line of the key.
C14_LiteralLinesUntouched ==
  Ended =>
    /\ \A p \in 1..Len(atomic_entries) : ~InsideLiteral(atomic_entries[p].id)
    /\ Cardinality({p \in 1..Len(atomic_entries) :
                      atomic_entries[p].kind # "kv" \/ atomic_entries[p].key # <<"y">>})
         = Cardinality({i \in 1..Len(raw_data) :
                          ~HasQuote3(i) /\ ~InsideLiteral(i)})
    /\ pc = "done" =>
         \A i \in 1..Len(raw_data) : OpensLiteral(i) =>
           \E t \in 1..Len(text) :
             /\ NoSpaces(text[t]) = NoSpaces(raw_data[i])
             /\ \A j \in (i + 1)..ClosingLine(i) :
                  /\ t + j - i <= Len(text)
                  /\ text[t + j - i] = raw_data[j]

\* A text was returned in which a literal holding a line that looks like a
\* header and one that looks like an indented comment stands below a header,
\* indented, and after a key that followed it in the input.
C14_Witness ==
  /\ Returned
  /\ \E i, j \in 1..Len(raw_data) : InsideLiteral(i) /\ InsideLiteral(j)
       /\ raw_data[i] = LineA /\ raw_data[j] = LineKK
  /\ \E o \in 1..Len(order) : \E k, l \in 1..Len(Out(o)) :
       /\ k < l
       /\ Out(o)[l].key = <<"y">> /\ Out(o)[l].indent > 0
       /\ Out(o)[k].kind = "kv" /\ Out(o)[k].id > Out(o)[l].id

\* C15: when the entry parser reaches the end of the input with lines left
\* in its buffer, formatting fails and returns no text.
C15_PendingBufferIsFatal ==
  Ended => (previous_lines_failed_to_parse # <<>> => pc = "failed")

\* The text of the comment of a line: what follows its first "#", stripped.
CommentText(line) == Strip(From(line, IndexOf(line, "#") + 1))

\* C16: every comment of the input appears in the output: whenever a text is
\* returned, every input line that holds a comment (a standalone comment, or
\* a comment after a plain key, a dotted key, an array-valued key or a header)
\* has its entry in the output, rendered with a comment of the same text.
C16_CommentsKept ==
  Returned =>
    \A i \in 1..Len(raw_data) : IndexOf(raw_data[i], "#") # 0 =>
      \E o \in 1..Len(order) : \E k \in 1..Len(Out(o)) :
        /\ Out(o)[k].id = i
        /\ IndexOf(EntryRepr(Out(o)[k]), "#") # 0
        /\ CommentText(EntryRepr(Out(o)[k])) = CommentText(raw_data[i])

\* The entries p..h-1 of the input are comments and entry h is a structural
\* header: comments that immediately precede a header.
CommentsBeforeHeader(p, h) ==
  /\ p < h
  /\ IsStructuralHeader(atomic_entries[h])
  /\ \A m \in p..(h - 1) : IsComment(atomic_entries[m])

\* C17: a comment that immediately precedes a structural header, with no
\* blank entry in between, is in the output, in the section of that header
\* and as far before the header as in the input, and stands nowhere else.
C17_CommentsStayWithHeader ==
  Ended =>
    \A p, h \in 1..Len(atomic_entries) : CommentsBeforeHeader(p, h) =>
      /\ \E o \in 1..Len(order) : \E k \in 1..Len(Out(o)) :
           Out(o)[k].id = atomic_entries[p].id
      /\ \A o \in 1..Len(order) : \A k \in 1..Len(Out(o)) :
           Out(o)[k].id = atomic_entries[p].id =>
             /\ k + (h - p) <= Len(Out(o))
             /\ Out(o)[k + (h - p)].id = atomic_entries[h].id

\* The file needs to be formatted: its text differs from its formatted text.
NeedsFormatting(file) ==
  Append(file, <<>>) # SplitText(FormattedText(file, indentation, override_sorting))

\* The check command has ended by returning or by SystemExit(1).
CheckEnded == command \in {"returned", "exit1"}

LinesOfFirst(o) == Len(ReprLines(sections, SubSeq(order, 1, o)))

\* C19: after section formatting no section holds two consecutive blank
\* entries, none starts with a blank entry and each ends with exactly one
\* blank entry; in the output, consecutive sections are separated by exactly
\* one empty line.
C19_BlankLinesNormalised ==
  Ended =>
    /\ \A s \in 1..Len(sections) :
         LET es == sections[s]
         IN  /\ es # <<>>
             /\ ~IsWhitespace(es[1])
             /\ IsWhitespace(es[Len(es)])
             /\ \A i \in 1..(Len(es) - 1) : ~(IsWhitespace(es[i]) /\ IsWhitespace(es[i + 1]))
    /\ pc = "done" =>
         \A o \in 1..(Len(order) - 1) :
           LET n == LinesOfFirst(o)
           IN  /\ n >= 2 /\ n < Len(text)
               /\ text[n] = <<>>
               /\ text[n - 1] # <<>>
               /\ text[n + 1] # <<>>

\* A document without a final blank line gave two output sections, and two
\* consecutive blank lines of it lay between two entries of one section.
C19_Witness ==
  /\ Ended /\ pc = "done"
  /\ Len(order) >= 2
  /\ raw_data[Len(raw_data)] # LineBlank
  /\ \E i \in 2..(Len(raw_data) - 2) :
       /\ raw_data[i] = LineBlank /\ raw_data[i + 1] = LineBlank
       /\ \E s \in 1..Len(sections) : \E j, k \in 1..Len(sections[s]) :
            sections[s][j].id = i - 1 /\ sections[s][k].id = i + 2

\* The entry is a dotted-key assignment.
IsDotted(e) == e.kind = "dotted"

\* Some output section holds the input entries p and q.
InOneSection(p, q) ==
  \E o \in 1..Len(order) : \E j, k \in 1..Len(Out(o)) :
    Out(o)[j].id = p /\ Out(o)[k].id = q

\* Input entry p comes before input entry q wherever both are in one output
\* section.
ComesBefore(p, q) ==
  \A o \in 1..Len(order) : \A j, k \in 1..Len(Out(o)) :
    (Out(o)[j].id = p /\ Out(o)[k].id = q) => j < k

\* C20: a dotted-key assignment is treated as an ordinary key-value entry
\* everywhere: it never begins a section (it stays in the section of the
\* header or key-value entry before it), it is sorted among the plain keys of
\* its sort block, the entry after it stands at its own indentation level,
\* and no section takes its name from it.
C20_DottedKeyIsOrdinaryKeyValue ==
  Ended =>
    /\ \A p \in 1..(Len(atomic_entries) - 1) :
         (IsDotted(atomic_entries[p + 1]) /\ ~IsWhitespace(atomic_entries[p])
            /\ ~IsComment(atomic_entries[p]))
           => InOneSection(p, p + 1)
    /\ \A p, q \in 1..Len(atomic_entries) :
         (/\ p <= q /\ InputSameBlock(p, q)
          /\ IsDotted(atomic_entries[p]) # IsDotted(atomic_entries[q]))
           => /\ InOneSection(p, q)
              /\ StrLess(SortKey(atomic_entries[q]), SortKey(atomic_entries[p]))
                   => ComesBefore(q, p)
              /\ StrLess(SortKey(atomic_entries[p]), SortKey(atomic_entries[q]))
                   => ComesBefore(p, q)
    /\ \A o \in 1..Len(order) : \A k \in 1..(Len(Out(o)) - 1) :
         (IsDotted(Out(o)[k]) /\ ~IsWhitespace(Out(o)[k + 1]))
           => Out(o)[k + 1].indent = Out(o)[k].indent
    /\ \A i \in 1..Len(sections) :
         (\A k \in 1..Len(sections[i]) : ~IsStructuralHeader(sections[i][k]))
           => names[i] = <<>>

\* C21: the comment lines of a comment-only section are not altered by
\* formatting: each is rendered as the input line it came from, with the
\* leading whitespace it had there, under every indentation option.
C21_DanglingCommentsKeepIndentation ==
  Ended =>
    \A o \in 1..Len(order) : \A k \in 1..Len(Out(o)) :
      (IsCommentSection(Out(o)) /\ IsComment(Out(o)[k])) =>
        /\ LeadingSpaces(EntryRepr(Out(o)[k])) = LeadingSpaces(raw_data[Out(o)[k].id])
        /\ EntryRepr(Out(o)[k]) = RStrip(raw_data[Out(o)[k].id])

\* A text was returned in which a comment-only section stands after another
\* section, its comment at three spaces, which is no multiple of the
\* indentation at work.
C21_Witness ==
  /\ Returned
  /\ indentation \in {2, 4}
  /\ \E o \in 2..Len(order) : \E k \in 1..Len(Out(o)) :
       /\ IsCommentSection(Out(o))
       /\ IsComment(Out(o)[k])
       /\ LeadingSpaces(EntryRepr(Out(o)[k])) = 3

\* C22: the output order is a permutation of the sections: every section
\* the sectionizer produced stands at exactly one place of the output, for
\* every list of override patterns.
C22_OrderIsPermutation ==
  Ended =>
    /\ Len(order) = Len(sections)
    /\ \A i \in 1..Len(sections) :
         Cardinality({k \in 1..Len(order) : order[k] = i}) = 1

\* The places (section, position) at which the sections hold input entry p.
PlacesOf(p) ==
  {sk \in UNION {{<<i, k>> : k \in 1..Len(sections[i])} : i \in 1..Len(sections)} :
     sections[sk[1]][sk[2]].id = atomic_entries[p].id}

\* C23: the sectionizer loses no entry: every non-blank entry the entry
\* parser produced is at exactly one place of exactly one section, also when
\* the last entry of the input is a structural header.
C23_NoEntryLost ==
  Ended =>
    \A p \in 1..Len(atomic_entries) :
      ~IsWhitespace(atomic_entries[p]) => Cardinality(PlacesOf(p)) = 1

\* The options instance j works with.
InstanceOptions(j) == OptionsOf(instances[j].formatting_options)

\* C24: no state is shared between documents: a call that makes an instance
\* or assigns the indentation of one leaves the options and the rendered text
\* of every other instance, and the defaults of instances made later
\* (DEFAULT_CONFIG), unchanged.
C24_NoSharedState ==
  [][/\ DEFAULT_CONFIG' = DEFAULT_CONFIG
     /\ \A j \in 1..Len(instances) :
          j # call'.target =>
            /\ InstanceOptions(j)' = InstanceOptions(j)
            /\ instances'[j].text = instances[j].text]_vars

\* C25: after instance.indentation = n the rendered text of the instance is
\* the text that formatting its input with indentation n gives.
C25_IndentationSetterReformats ==
  call.op = "indentation" =>
    instances[call.target].text
      = FormattedText(instances[call.target].raw_data, call.value, <<>>)

============================================================================
